---- MODULE Spec2Model ----
(***************************************************************************)
(* Model of the retry-governed result acquisition and bulk upload of       *)
(* data_uploader/model_interface.py: the retry decorator with its shared   *)
(* budget, fetch_model_response polling, get, bulk_get and                 *)
(* bulk_upload_image.                                                      *)
(***************************************************************************)
EXTENDS Integers, Sequences, FiniteSets, TLC

VARIABLES
    retry_counter,  \* decorated function -> [retries, error]: one dict per retry(...) closure
    pc,             \* thread -> position inside inner() or in the caller
    stage,          \* thread -> which wrapped call of its caller the thread is in
    exc,            \* thread -> exception in flight ("none" when there is none)
    ret,            \* thread -> value returned by the last wrapped call
    late,           \* thread -> (datetime.now() - start_time).seconds > get_timeout
    hist,           \* thread -> observations of the current wrapped call (history only)
    hfn,            \* the decorated function the sequential caller exercises
    hcalls,         \* number of calls the sequential caller has made
    accession,      \* thread -> accession of the get() it runs (0: none)
    attempt,        \* thread -> attempt of get()'s for loop
    classification_ret, \* thread -> get()'s local
    segmentation_data,  \* thread -> get()'s local
    laterality,     \* thread -> get()'s local
    get_log,        \* thread -> get()'s local
    to_retrieve,    \* thread -> segment references not yet iterated by get()
    raised_in,      \* thread -> attempts of get() in which a wrapped call raised (history only)
    max_workers,    \* ModelInterface.max_workers
    accessions,     \* the list bulk_get was called with
    queue,          \* work items submitted to the pool and not yet taken
    futures,        \* results collected from the pool
    datasets,       \* the pydicom datasets handed to bulk_upload_image (shared objects)
    internal_maps,  \* ModelInterface.internal_maps: the UploadMap list
    uids,           \* identifiers generated so far by generate_uid / shortuuid
    residuals,      \* bulk_upload_image's local: the units of the pass
    count,          \* bulk_upload_image's local
    regenerate_uids,    \* bulk_upload_image's argument, then local
    upload_by_study,    \* bulk_upload_image's argument
    force_accession_equal_study_uid,    \* ModelInterface attribute
    bulk,           \* position of bulk_upload_image
    unit,           \* thread -> index in residuals of the unit its upload_images runs on
    matching,       \* thread -> the UploadMap entries upload_images' for loop has yet to visit
    response,       \* thread -> upload_images' local
    exception_text, \* bulk_upload_image's local: what the Exception is raised with
    dses,           \* the datasets as they were handed to bulk_upload_image (history only)
    passes,         \* the units and the results of each pass so far (history only)
    sent,           \* the upload and predict requests sent so far (history only)
    signed          \* the requests canonicalised and signed so far, with the results

retryVars == <<retry_counter, pc, stage, exc, ret, late, hist>>
callerVars == <<hfn, hcalls>>
getVars == <<accession, attempt, classification_ret, segmentation_data, laterality,
             get_log, to_retrieve, raised_in>>
poolVars == <<max_workers, accessions, queue, futures>>
uploadVars == <<datasets, internal_maps, uids, residuals, count, regenerate_uids,
                upload_by_study, force_accession_equal_study_uid, bulk, unit, matching,
                response>>
traceVars == <<exception_text, dses, passes, sent>>
vars == <<retryVars, callerVars, getVars, poolVars, uploadVars, traceVars, signed>>

(* ---------------- bounds ---------------- *)

\* Calls made one after another by the sequential caller.
MaxCalls == 2
\* Segments without a laterality tag a classification can carry.
MaxMasks == 1
\* How far below zero the model follows a retry budget.
MaxDeficit == 1
\* Distinct accessions handed to bulk_get.
MaxAccessions == 1
\* Requests of one call of upload_images the history tells apart.
MaxCounted == 2
\* Datasets handed to bulk_upload_image.
MaxDatasets == 2
\* Distinct study identifiers, and accession numbers, among them.
MaxStudies == 2

(* ---------------- program constants ---------------- *)

UploadRetries == 3
PredictRetries == 3
FetchRetries == 10
SegmentsRetries == 100
MaskRetries == 10
StudyDetailsRetries == 3
\* retry_counter['retries'] = 10 inside fetch_model_response
RearmRetries == 10
\* for attempt in range(3)
OuterAttempts == 3
\* if count > 2: raise
PassLimit == 2
\* "If upload was not successful after 3 passes through the list of jobs"
DocumentedPasses == 3

Threads == {1, 2}

Decorated ==
    {"upload_image_helper", "study_predict_helper", "fetch_model_response",
     "fetch_predicted_segments", "fetch_segment_mask", "get_study_details"}

\* The retries argument of each @retry(...) decoration.
Retries(f) ==
    CASE f = "upload_image_helper" -> UploadRetries
      [] f = "study_predict_helper" -> PredictRetries
      [] f = "fetch_model_response" -> FetchRetries
      [] f = "fetch_predicted_segments" -> SegmentsRetries
      [] f = "fetch_segment_mask" -> MaskRetries
      [] f = "get_study_details" -> StudyDetailsRetries

\* pass_retry_counter_to_inner of each decoration.
PassRetryCounter(f) == f = "fetch_model_response"

\* The tuple without requests' ConnectionError.
REMOTE_ERRORS_WithoutConnectionError ==
    {"RemoteDisconnected", "ProtocolError", "HTTPException", "Timeout", "ReadTimeout",
     "ConnectTimeout"}

\* The tuple without requests' Timeout.
REMOTE_ERRORS_WithoutTimeout ==
    {"ConnectionError", "RemoteDisconnected", "ProtocolError", "HTTPException",
     "ReadTimeout", "ConnectTimeout"}

\* The exception classes inner() and the callers catch.
REMOTE_ERRORS ==
    {"ConnectionError", "RemoteDisconnected", "ProtocolError", "HTTPException",
     "Timeout", "ReadTimeout", "ConnectTimeout"}

\* A bare except clause.
IsRemoteError_CatchesAll(k) == TRUE

\* except REMOTE_ERRORS: a subclass of a listed class is caught as well.
IsRemoteError(k) == k \in REMOTE_ERRORS

(* ---------------- the remote service as seen by one request ---------------- *)

NoValue == [type |-> "none"]
Response(s, b) == [type |-> "response", status_code |-> s, text |-> b]
Raised(k) == [type |-> "raise", exc |-> k]

\* An exception requests raises from a send: one of REMOTE_ERRORS.
TransportErrors == {Raised("ReadTimeout")}
\* A requests exception outside REMOTE_ERRORS.
OtherErrors == {Raised("TooManyRedirects")}

\* The segments of the (single) image of a study: segment 0 carries a
\* laterality tag, segments 1..MaxMasks do not.
Segment(i) == [id |-> i, laterality |-> (i = 0)]
Segments == {Segment(i) : i \in 0..MaxMasks}

\* json.loads(resp.text) of a /v1/studies/filter answer: the study list is empty,
\* or its first study has a vision status and, when complete, vision findings
\* (absent when the service reports errors.vision instead).
FilterBody(n, st, v, segs) == [studies |-> n, status |-> st, vision |-> v, segments |-> segs]
FilterTexts ==
    {FilterBody(0, "none", FALSE, {})}
    \cup {FilterBody(1, st, FALSE, {}) : st \in {"PENDING", "IN_PROGRESS", "COMPLETED_ERROR"}}
    \cup {FilterBody(1, "COMPLETED", TRUE, segs) : segs \in SUBSET Segments}
FilterError == FilterBody(0, "error", FALSE, {})

\* What one request of the wrapped function can meet.
Events(f) ==
    TransportErrors \cup
    CASE f = "upload_image_helper" ->
            {Response(200, "ok"), Response(400, "too many images"), Response(500, "error")}
      [] f = "study_predict_helper" -> {Response(200, "ok"), Response(500, "error")}
      [] f = "get_study_details" -> {Response(200, "ok"), Response(500, "error")}
      [] f = "fetch_model_response" ->
            {Response(200, b) : b \in FilterTexts} \cup {Response(500, FilterError)}
      [] f = "fetch_predicted_segments" ->
            {Response(200, "segments"), Response(200, "no segments"),
             Response(500, "error")}
      [] f = "fetch_segment_mask" -> {Response(200, "png"), Response(403, "<?xml")}

(* ---------------- the wrapped functions ---------------- *)

Return(v) == [kind |-> "return", val |-> v, exc |-> "none", rearm |-> FALSE]
\* rearm: the function set retry_counter['retries'] = 10 before raising.
Raise(k, r) == [kind |-> "raise", val |-> NoValue, exc |-> k, rearm |-> r]

\* A test that takes IN_PROGRESS for finished.
IsPending_PendingOnly(b) == b.studies = 0 \/ b.status = "PENDING"

\* len(studies_list) == 0, or the vision status is PENDING or IN_PROGRESS
IsPending(b) == b.studies = 0 \/ b.status \in {"PENDING", "IN_PROGRESS"}

\* A 200 answer to the filter request that shows the study not finished yet.
IsPendingAnswer(f, ev) ==
    /\ f = "fetch_model_response"
    /\ ev.type = "response"
    /\ ev.status_code = 200
    /\ IsPending(ev.text)

\* A 200 answer to the filter request whose study list is not empty and whose
\* first study is neither PENDING nor IN_PROGRESS.
IsFinalAnswer(f, ev) ==
    /\ f = "fetch_model_response"
    /\ ev.type = "response"
    /\ ev.status_code = 200
    /\ ev.text.studies > 0
    /\ ev.text.status \notin {"PENDING", "IN_PROGRESS"}

fetch_model_response(resp, isLate) ==
    IF resp.status_code = 200
    THEN IF IsPending(resp.text)
         THEN IF isLate
              THEN Raise("Timeout", FALSE)
              ELSE Raise("ConnectionError", TRUE)
         ELSE Return(resp)
    ELSE Raise("ConnectionError", FALSE)

fetch_predicted_segments(resp) ==
    IF resp.status_code = 200 THEN Return(resp) ELSE Raise("ConnectionError", FALSE)

fetch_segment_mask(resp) ==
    IF resp.text = "<?xml" THEN Raise("ConnectionError", FALSE) ELSE Return(resp)

\* An upload_image_helper that raises on an answer that is not a 200.
Body_UploadRaisesOnStatus(f, ev, isLate) ==
    IF ev.type = "raise"
    THEN Raise(ev.exc, FALSE)
    ELSE CASE f = "fetch_model_response" -> fetch_model_response(ev, isLate)
           [] f = "fetch_predicted_segments" -> fetch_predicted_segments(ev)
           [] f = "fetch_segment_mask" -> fetch_segment_mask(ev)
           [] f = "upload_image_helper" /\ ev.status_code # 200 -> Raise("HTTPException", FALSE)
           [] OTHER -> Return(ev)

\* One invocation f(*args) of the wrapped function against the event ev.
Body(f, ev, isLate) ==
    IF ev.type = "raise"
    THEN Raise(ev.exc, FALSE)
    ELSE CASE f = "fetch_model_response" -> fetch_model_response(ev, isLate)
           [] f = "fetch_predicted_segments" -> fetch_predicted_segments(ev)
           [] f = "fetch_segment_mask" -> fetch_segment_mask(ev)
           [] OTHER -> Return(ev)

(* ---------------- retry(): the decorator ---------------- *)

NoDetail == [thread |-> 0, call |-> 0, attempt |-> 0]

\* retry_counter = {'retries': retries}
NewCounter(f) == [retries |-> Retries(f), error |-> NoDetail]

\* A loop that gives up with one attempt left.
LoopGuard_StopsEarly(c) == c.retries > 1

\* while retry_counter['retries']:
LoopGuard(c) == c.retries # 0

\* A wrapped function that leaves the budget alone.
Rearm_Dropped(c) == c

\* retry_counter['retries'] = 10 done by the wrapped function
Rearm(c) == [c EXCEPT !.retries = RearmRetries]

\* A success that leaves the budget as the failures left it.
OnSuccess_NoReset(c, f) == c

\* retry_counter['retries'] = retries
OnSuccess(c, f) == [c EXCEPT !.retries = Retries(f)]

\* return ret
InnerReturn(v) == v

\* retry_counter['error'] = traceback.format_exc(); retry_counter['retries'] -= 1
OnFailure(c, detail) == [retries |-> c.retries - 1, error |-> detail]


(* ---------------- one thread inside inner() ---------------- *)

\* The decorated function thread t is calling.
Fn(t) ==
    CASE stage[t] = "fetch" -> "fetch_model_response"
      [] stage[t] = "segs" -> "fetch_predicted_segments"
      [] stage[t] = "mask" -> "fetch_segment_mask"
      [] stage[t] = "upload" -> "upload_image_helper"
      [] stage[t] = "predict" -> "study_predict_helper"
      [] OTHER -> hfn

NoExc == [kind |-> "none", detail |-> NoDetail]

\* What traceback.format_exc() tells about the failure of thread t: the call
\* it belongs to (the accession or the number of the call, and the attempt).
Detail(t) ==
    [thread |-> t,
     call |-> IF stage[t] = "caller" THEN hcalls ELSE accession[t],
     attempt |-> attempt[t]]

Min(a, b) == IF a < b THEN a ELSE b
\* History counters stop at cap.
Sat(n, cap) == Min(n + 1, cap)
\* The sequential caller counts up to one above the budget; upload_images
\* needs to tell one request from several, get() only whether one was sent.
HistCap(t) ==
    IF stage[t] = "caller" THEN Retries(hfn) + 1
    ELSE IF stage[t] \in {"upload", "predict"} THEN MaxCounted
    ELSE 1
\* The history is kept for runs of a single thread.
Tracked == max_workers = 1

NoHist ==
    [entry |-> 0, invoked |-> 0, failed |-> 0, rearmed |-> FALSE,
     timedout |-> FALSE, after |-> FALSE, other |-> FALSE, val |-> NoValue,
     status |-> 0, fatal |-> FALSE, final |-> NoValue]

\* The history of a call that starts with the budget of c.
NewHist(c) == IF Tracked THEN [NoHist EXCEPT !.entry = c.retries] ELSE NoHist

\* The history of the call after one invocation met ev with outcome out.
Observe(h, f, ev, out, cap) ==
    IF ~Tracked THEN h ELSE
    [h EXCEPT
        !.invoked = Sat(h.invoked, cap),
        !.failed = IF out.kind = "raise" /\ ~out.rearm /\ IsRemoteError(out.exc)
                   THEN Sat(h.failed, cap) ELSE h.failed,
        !.rearmed = h.rearmed \/ out.rearm,
        !.timedout = h.timedout \/ (out.kind = "raise" /\ out.exc = "Timeout"),
        !.after = h.after \/ h.timedout,
        !.other = h.other \/ ~IsPendingAnswer(f, ev),
        !.val = out.val,
        !.status = IF ev.type = "response" /\ f \in {"upload_image_helper", "study_predict_helper"}
                   THEN ev.status_code ELSE h.status,
        !.fatal = h.fatal \/ ev \in OtherErrors,
        !.final = IF h.final = NoValue /\ IsFinalAnswer(f, ev) THEN ev ELSE h.final]

\* inner() is entered: the caller's side of the call.
EnterInner(t, st) ==
    /\ stage' = [stage EXCEPT ![t] = st]
    /\ pc' = [pc EXCEPT ![t] = "guard"]
    /\ exc' = [exc EXCEPT ![t] = NoExc]
    /\ ret' = [ret EXCEPT ![t] = NoValue]

\* while retry_counter['retries']: ... raise ConnectionError(retry_counter['error'])
InnerGuard(t) ==
    /\ pc[t] = "guard"
    /\ LET c == retry_counter[Fn(t)] IN
       IF LoopGuard(c)
       THEN /\ pc' = [pc EXCEPT ![t] = "call"]
            /\ exc' = exc
       ELSE /\ pc' = [pc EXCEPT ![t] = "raised"]
            /\ exc' = [exc EXCEPT ![t] = [kind |-> "ConnectionError", detail |-> c.error]]
    /\ UNCHANGED <<retry_counter, stage, ret, late, hist>>

\* ret = f(...); retry_counter['retries'] = retries; return ret
\* or the exception of f reaches the except clause or leaves inner().
InnerCall(t, ev) ==
    /\ pc[t] = "call"
    /\ LET f == Fn(t)
           out == Body(f, ev, late[t])
           c0 == retry_counter[f]
           c1 == IF out.rearm /\ PassRetryCounter(f) THEN Rearm(c0) ELSE c0
       IN /\ hist' = [hist EXCEPT ![t] = Observe(hist[t], f, ev, out, HistCap(t))]
          /\ IF out.kind = "return"
             THEN /\ retry_counter' = [retry_counter EXCEPT ![f] = OnSuccess(c1, f)]
                  /\ ret' = [ret EXCEPT ![t] = InnerReturn(out.val)]
                  /\ pc' = [pc EXCEPT ![t] = "returned"]
                  /\ exc' = exc
             ELSE /\ retry_counter' = [retry_counter EXCEPT ![f] = c1]
                  /\ ret' = ret
                  /\ pc' = [pc EXCEPT ![t] =
                               IF IsRemoteError(out.exc) THEN "except" ELSE "raised"]
                  /\ exc' = [exc EXCEPT ![t] =
                               [kind |-> out.exc, detail |-> Detail(t)]]
    /\ UNCHANGED <<stage, late>>

\* except REMOTE_ERRORS: record the error, decrement, time.sleep(1). A budget
\* of -MaxDeficit stands for every budget at or below it: what is decremented
\* further stays below 0, the only thing the loop test reads.
InnerExcept(t) ==
    /\ pc[t] = "except"
    /\ LET f == Fn(t)
           c == OnFailure(retry_counter[f], exc[t].detail)
       IN retry_counter' =
              [retry_counter EXCEPT ![f] =
                  IF c.retries < -MaxDeficit THEN [c EXCEPT !.retries = -MaxDeficit] ELSE c]
    /\ pc' = [pc EXCEPT ![t] = "guard"]
    /\ exc' = [exc EXCEPT ![t] = NoExc]
    /\ UNCHANGED <<stage, ret, late, hist>>

\* Wall-clock time passes get_timeout seconds after start_time.
Tick(t) ==
    /\ pc[t] \in {"guard", "call", "except"}
    /\ Fn(t) = "fetch_model_response"
    /\ ~late[t]
    /\ late' = [late EXCEPT ![t] = TRUE]
    /\ UNCHANGED <<retry_counter, pc, stage, exc, ret, hist>>

(* ---------------- a caller making calls one after another ---------------- *)

InitThreads ==
    /\ retry_counter = [f \in Decorated |-> NewCounter(f)]
    /\ exc = [t \in Threads |-> NoExc]
    /\ ret = [t \in Threads |-> NoValue]
    /\ late = [t \in Threads |-> FALSE]
    /\ hist = [t \in Threads |-> NoHist]
    /\ accession = [t \in Threads |-> 0]
    /\ attempt = [t \in Threads |-> 0]
    /\ classification_ret = [t \in Threads |-> NoValue]
    /\ segmentation_data = [t \in Threads |-> NoValue]
    /\ laterality = [t \in Threads |-> NoValue]
    /\ get_log = [t \in Threads |-> NoValue]
    /\ to_retrieve = [t \in Threads |-> <<>>]
    /\ signed = {}
    /\ raised_in = [t \in Threads |-> {}]
    /\ unit = [t \in Threads |-> 0]
    /\ matching = [t \in Threads |-> <<>>]
    /\ response = [t \in Threads |-> NoValue]

\* bulk_upload_image is not running.
NoUpload ==
    /\ datasets = <<>>
    /\ internal_maps = <<>>
    /\ uids = 0
    /\ residuals = <<>>
    /\ count = 0
    /\ regenerate_uids = FALSE
    /\ upload_by_study = FALSE
    /\ force_accession_equal_study_uid = FALSE
    /\ bulk = "idle"
    /\ exception_text = NoValue
    /\ dses = <<>>
    /\ passes = <<>>
    /\ sent = {}

\* The decorated functions the sequential caller is run with.
Exercised ==
    {"upload_image_helper", "study_predict_helper", "fetch_model_response",
     "fetch_segment_mask"}

InitRetry ==
    /\ InitThreads
    /\ NoUpload
    /\ hfn \in Exercised
    /\ hcalls = 0
    /\ pc = [t \in Threads |-> "idle"]
    /\ stage = [t \in Threads |-> IF t = 1 THEN "caller" ELSE "none"]
    /\ max_workers = 1
    /\ accessions = <<>>
    /\ queue = <<>>
    /\ futures = <<>>

\* The next call of the decorated function, after the previous one ended.
CallAgain ==
    /\ stage[1] = "caller"
    /\ pc[1] \in {"idle", "returned", "raised"}
    /\ hcalls < MaxCalls
    /\ hcalls' = hcalls + 1
    /\ EnterInner(1, "caller")
    /\ late' = [late EXCEPT ![1] = FALSE]
    /\ hist' = [hist EXCEPT ![1] = NewHist(retry_counter[hfn])]
    /\ UNCHANGED <<retry_counter, hfn, signed, getVars, poolVars, uploadVars, traceVars>>

GuardStep(t) == InnerGuard(t)
    /\ UNCHANGED <<callerVars, signed, getVars, poolVars, uploadVars, traceVars>>

\* A request built from the identifiers the datasets were handed in with.
Request_OriginalIds(t) ==
    LET dsl == residuals[unit[t]] IN
    [path |-> IF stage[t] = "upload" THEN "/v1/images/upload" ELSE "/v1/studies/predict",
     pass |-> count,
     unit |-> unit[t],
     studyInstanceUid |-> dses[dsl[1]].StudyInstanceUID,
     images |-> IF stage[t] = "upload" THEN [j \in DOMAIN dsl |-> dses[dsl[j]]] ELSE <<>>]

\* The request upload_image_helper or study_predict_helper of thread t sends:
\* the vision request built from the datasets, or the study to predict.
Request(t) ==
    LET dsl == residuals[unit[t]] IN
    [path |-> IF stage[t] = "upload" THEN "/v1/images/upload" ELSE "/v1/studies/predict",
     pass |-> count,
     unit |-> unit[t],
     studyInstanceUid |-> datasets[dsl[1]].StudyInstanceUID,
     images |-> IF stage[t] = "upload" THEN [j \in DOMAIN dsl |-> datasets[dsl[j]]] ELSE <<>>]

CallStep(t, evs) ==
    \E ev \in evs :
        /\ InnerCall(t, ev)
        /\ sent' = IF stage[t] \in {"upload", "predict"} THEN sent \cup {Request(t)} ELSE sent
        /\ UNCHANGED <<callerVars, signed, getVars, poolVars, uploadVars, exception_text, dses, passes>>

ExceptStep(t) == InnerExcept(t)
    /\ UNCHANGED <<callerVars, signed, getVars, poolVars, uploadVars, traceVars>>

TickStep(t) == Tick(t)
    /\ UNCHANGED <<callerVars, signed, getVars, poolVars, uploadVars, traceVars>>

NextRetry ==
    \/ CallAgain
    \/ GuardStep(1)
    \/ CallStep(1, Events(Fn(1)) \cup OtherErrors)
    \/ ExceptStep(1)
    \/ TickStep(1)

SpecRetry == InitRetry /\ [][NextRetry]_vars

(* ---------------- the retry decorator, call after call (SpecRetry) ---------------- *)

\* The call of the sequential caller has ended, by return or by raise.
CallEnded == stage[1] = "caller" /\ pc[1] \in {"returned", "raised"}

\* C1: a call entered with the full budget N in which every invocation of the
\* wrapped function failed with a transient error (a still-pending answer, on
\* which the function re-arms the budget, is not a failure) has invoked the
\* function exactly N times and ended by raising ConnectionError.
C1_ExhaustedAfterN ==
    (/\ CallEnded
     /\ hist[1].entry = Retries(hfn)
     /\ ~hist[1].rearmed
     /\ hist[1].failed = hist[1].invoked)
    => (/\ hist[1].invoked = Retries(hfn)
        /\ pc[1] = "raised"
        /\ exc[1].kind = "ConnectionError")

C1_Witness ==
    /\ CallEnded
    /\ hist[1].entry = Retries(hfn)
    /\ ~hist[1].rearmed
    /\ hist[1].failed = hist[1].invoked
    /\ hist[1].invoked = Retries(hfn)
    /\ pc[1] = "raised"

\* C2: when the wrapped function succeeds after k < N failed invocations, the
\* call returns the value the function returned and the budget is N.
C2_SuccessResets ==
    (/\ CallEnded
     /\ pc[1] = "returned"
     /\ hist[1].invoked <= Retries(hfn))
    => (/\ ret[1] = hist[1].val
        /\ retry_counter[hfn].retries = Retries(hfn))

C2_Witness ==
    /\ CallEnded
    /\ pc[1] = "returned"
    /\ hist[1].failed = 2
    /\ hist[1].invoked = 3
    /\ ret[1].type = "response"

\* C4: in a call of fetch_model_response, once a still-pending answer was met
\* after the deadline (Timeout), no further filter request is sent, and the
\* call ends with that Timeout.
C4_TimeoutIsTerminal ==
    hfn = "fetch_model_response" =>
        /\ ~hist[1].after
        /\ (CallEnded /\ hist[1].timedout) => exc[1].kind = "Timeout"

\* C5: a call of fetch_model_response that has met answers, all of them 200
\* and still pending, does not end by exhaustion of the budget unless the
\* deadline had passed at one of them.
C5_PendingNeverExhausts ==
    (/\ hfn = "fetch_model_response"
     /\ CallEnded
     /\ pc[1] = "raised"
     /\ hist[1].invoked >= 1
     /\ ~hist[1].other)
    => hist[1].timedout

\* More still-pending answers than the budget, and the call polls on.
C5_Witness ==
    /\ hfn = "fetch_model_response"
    /\ stage[1] = "caller"
    /\ pc[1] = "call"
    /\ hist[1].invoked = FetchRetries + 1
    /\ ~hist[1].other
    /\ ~hist[1].timedout

\* C21: an exception of the wrapped function that is not one of REMOTE_ERRORS
\* leaves inner() at once: the call has ended with that exception, the
\* function was invoked once more than it failed with a transient error, and
\* the budget is what the transient failures before it left.
C21_OtherErrorPropagates ==
    hist[1].fatal =>
        /\ CallEnded
        /\ pc[1] = "raised"
        /\ Raised(exc[1].kind) \in OtherErrors
        /\ ~hist[1].rearmed =>
            /\ hist[1].invoked = hist[1].failed + 1
            /\ retry_counter[hfn].retries = hist[1].entry - hist[1].failed

\* The other error came after two transient failures.
C21_Witness ==
    /\ hist[1].fatal
    /\ pc[1] = "raised"
    /\ hist[1].entry = Retries(hfn)
    /\ hist[1].failed = 2
    /\ retry_counter[hfn].retries = Retries(hfn) - 2

\* C22: the ConnectionError a call ends with on exhaustion carries the detail
\* of a failure of that call: of the thread that made the call, in the call
\* that raised.
C22_ErrorOfSameCall ==
    (CallEnded /\ pc[1] = "raised" /\ exc[1].kind = "ConnectionError") =>
        /\ exc[1].detail.thread = 1
        /\ exc[1].detail.call = hcalls

\* C23: a call of fetch_model_response ends at the first 200 answer with a
\* study that is neither PENDING nor IN_PROGRESS, by returning that answer's
\* payload; and whatever it returns is such a payload.
C23_ReturnsFirstFinalPayload ==
    hfn = "fetch_model_response" =>
        /\ hist[1].final # NoValue => (CallEnded /\ pc[1] = "returned")
        /\ (CallEnded /\ pc[1] = "returned") =>
            /\ ret[1] = hist[1].final
            /\ ret[1].type = "response"
            /\ ret[1].status_code = 200
            /\ ret[1].text.studies > 0
            /\ ret[1].text.status \notin {"PENDING", "IN_PROGRESS"}

\* Returned after still-pending answers and a failure.
C23_Witness ==
    /\ hfn = "fetch_model_response"
    /\ CallEnded
    /\ pc[1] = "returned"
    /\ hist[1].rearmed
    /\ hist[1].failed >= 1
    /\ ret[1].text.status = "COMPLETED"

(* ---------------- get() ---------------- *)

None == [type |-> "None"]
ERROR == [type |-> "ERROR"]
\* classification_ret['errors']['vision']
VisionErrors == [type |-> "errors.vision"]

\* A test that finds a vision section in every payload.
HasVision_Always(c) == TRUE

\* 'vision' in classification_ret['findings']
HasVision(c) == c.text.vision

\* laterality[uid][label] for the segments that carry a laterality tag
LateralityOf(c) ==
    [type |-> "map", labels |-> {sg.id : sg \in {x \in c.text.segments : x.laterality}}]

\* segment_id_to_label: the segments without a laterality tag
SegmentIdToLabel(c) == {sg.id : sg \in {x \in c.text.segments : ~x.laterality}}

\* segmentation_data: the images that have an entry and the labels that have a mask
Segmentation(imgs, lbls) == [type |-> "map", images |-> imgs, labels |-> lbls]

RECURSIVE SeqOfSet(_)
SeqOfSet(S) ==
    IF S = {} THEN <<>>
    ELSE LET m == CHOOSE x \in S : \A y \in S : x <= y IN <<m>> \o SeqOfSet(S \ {m})

\* to_retrieve: one (id, imageInstanceUid, url) per entry of findingsSegments
\* that has a 'segments' key
ToRetrieve(c, body) ==
    IF body = "segments" THEN SeqOfSet(SegmentIdToLabel(c)) ELSE <<>>

\* An except clause that keeps no trace.
AppendLog_Dropped(log, t) == log

\* An except clause that keeps the last trace only: get_log = tb
AppendLog_Overwrites(log, t) ==
    [type |-> "log", traces |-> <<[attempt |-> attempt[t], stage |-> stage[t]]>>]

\* get_log = tb if get_log is None else get_log + tb
AppendLog(log, t) ==
    LET tb == [attempt |-> attempt[t], stage |-> stage[t]] IN
    IF log = None THEN [type |-> "log", traces |-> <<tb>>]
    ELSE [type |-> "log", traces |-> Append(log.traces, tb)]

Result(t) ==
    [type |-> "result",
     accession |-> accession[t],
     classification |-> classification_ret[t],
     segmentation |-> segmentation_data[t],
     laterality |-> laterality[t],
     get_log |-> get_log[t]]

\* A pool thread takes the next accession and get() starts: get_log = None.
GetStart(t) ==
    /\ t <= max_workers
    /\ pc[t] = "idle"
    /\ queue # <<>>
    /\ queue' = Tail(queue)
    /\ accession' = [accession EXCEPT ![t] = Head(queue)]
    /\ attempt' = [attempt EXCEPT ![t] = 0]
    /\ get_log' = [get_log EXCEPT ![t] = None]
    /\ classification_ret' = [classification_ret EXCEPT ![t] = NoValue]
    /\ segmentation_data' = [segmentation_data EXCEPT ![t] = NoValue]
    /\ laterality' = [laterality EXCEPT ![t] = NoValue]
    /\ to_retrieve' = [to_retrieve EXCEPT ![t] = <<>>]
    /\ raised_in' = [raised_in EXCEPT ![t] = {}]
    /\ pc' = [pc EXCEPT ![t] = "loop"]
    /\ stage' = [stage EXCEPT ![t] = "get"]
    /\ UNCHANGED <<retry_counter, exc, ret, late, hist, callerVars, signed, traceVars, uploadVars,
                   max_workers, accessions, futures>>

\* A loop whose else branch marks the classification only.
GetLoop_ClassificationOnly(t) ==
    /\ pc[t] = "loop"
    /\ IF attempt[t] < OuterAttempts
       THEN /\ EnterInner(t, "fetch")
            /\ late' = [late EXCEPT ![t] = FALSE]
            /\ hist' = [hist EXCEPT ![t] = NewHist(retry_counter["fetch_model_response"])]
            /\ UNCHANGED <<classification_ret, segmentation_data, laterality>>
       ELSE /\ classification_ret' = [classification_ret EXCEPT ![t] = ERROR]
            /\ UNCHANGED <<segmentation_data, laterality>>
            /\ pc' = [pc EXCEPT ![t] = "return"]
            /\ UNCHANGED <<stage, exc, ret, late, hist>>
    /\ UNCHANGED <<retry_counter, callerVars, signed, traceVars, uploadVars, accession, attempt,
                   get_log, to_retrieve, raised_in, poolVars>>

\* for attempt in range(3): fetch_model_response(..., start_time=datetime.now())
\* and the else branch of the loop: every field becomes 'ERROR'.
GetLoop(t) ==
    /\ pc[t] = "loop"
    /\ IF attempt[t] < OuterAttempts
       THEN /\ EnterInner(t, "fetch")
            /\ late' = [late EXCEPT ![t] = FALSE]
            /\ hist' = [hist EXCEPT ![t] = NewHist(retry_counter["fetch_model_response"])]
            /\ UNCHANGED <<classification_ret, segmentation_data, laterality>>
       ELSE /\ classification_ret' = [classification_ret EXCEPT ![t] = ERROR]
            /\ segmentation_data' = [segmentation_data EXCEPT ![t] = ERROR]
            /\ laterality' = [laterality EXCEPT ![t] = ERROR]
            /\ pc' = [pc EXCEPT ![t] = "return"]
            /\ UNCHANGED <<stage, exc, ret, late, hist>>
    /\ UNCHANGED <<retry_counter, callerVars, signed, traceVars, uploadVars, accession, attempt,
                   get_log, to_retrieve, raised_in, poolVars>>

\* The try/except REMOTE_ERRORS of get() around a wrapped call that raised:
\* the trace is appended to get_log and continue is executed, which ends the
\* attempt (outer) or goes on with the next entry of to_retrieve (not outer);
\* any other exception leaves get().
GetExceptAs(t, outer) ==
    /\ pc[t] = "raised"
    /\ raised_in' = [raised_in EXCEPT ![t] = raised_in[t] \cup {attempt[t]}]
    /\ IF IsRemoteError(exc[t].kind)
       THEN /\ get_log' = [get_log EXCEPT ![t] = AppendLog(get_log[t], t)]
            /\ IF outer
               THEN /\ attempt' = [attempt EXCEPT ![t] = attempt[t] + 1]
                    /\ pc' = [pc EXCEPT ![t] = "loop"]
                    /\ to_retrieve' = to_retrieve
               ELSE /\ attempt' = attempt
                    /\ pc' = [pc EXCEPT ![t] = "masks"]
                    /\ to_retrieve' = [to_retrieve EXCEPT ![t] = Tail(to_retrieve[t])]
       ELSE /\ pc' = [pc EXCEPT ![t] = "propagate"]
            /\ UNCHANGED <<get_log, attempt, to_retrieve>>
    /\ UNCHANGED <<retry_counter, stage, exc, ret, late, hist, callerVars, signed, traceVars,
                   uploadVars, accession, classification_ret, segmentation_data, laterality,
                   poolVars>>

\* except REMOTE_ERRORS around fetch_model_response: log and continue
GetFetchExcept(t) == stage[t] = "fetch" /\ GetExceptAs(t, TRUE)

\* fetch_model_response returned: the errors.vision shortcut, or the segments
\* are sorted into laterality and segment_id_to_label and, if there is any of
\* the latter, fetch_predicted_segments is called.
GetDissect(t) ==
    /\ stage[t] = "fetch"
    /\ pc[t] = "returned"
    /\ LET c == ret[t] IN
       IF ~HasVision(c)
       THEN /\ classification_ret' = [classification_ret EXCEPT ![t] = VisionErrors]
            /\ segmentation_data' = [segmentation_data EXCEPT ![t] = VisionErrors]
            /\ laterality' = [laterality EXCEPT ![t] = VisionErrors]
            /\ get_log' = [get_log EXCEPT ![t] = VisionErrors]
            /\ pc' = [pc EXCEPT ![t] = "return"]
            /\ UNCHANGED <<stage, exc, ret, hist>>
       ELSE /\ classification_ret' = [classification_ret EXCEPT ![t] = c]
            /\ segmentation_data' = [segmentation_data EXCEPT ![t] = Segmentation({}, {})]
            /\ laterality' = [laterality EXCEPT ![t] = LateralityOf(c)]
            /\ get_log' = get_log
            /\ IF SegmentIdToLabel(c) # {}
               THEN /\ EnterInner(t, "segs")
                    /\ hist' = [hist EXCEPT ![t] =
                                    NewHist(retry_counter["fetch_predicted_segments"])]
               ELSE /\ pc' = [pc EXCEPT ![t] = "return"]
                    /\ UNCHANGED <<stage, exc, ret, hist>>
    /\ UNCHANGED <<retry_counter, late, callerVars, signed, traceVars, uploadVars, accession, attempt,
                   to_retrieve, raised_in, poolVars>>

\* except REMOTE_ERRORS around fetch_predicted_segments: log and continue
GetSegmentsExcept(t) == stage[t] = "segs" /\ GetExceptAs(t, TRUE)

\* fetch_predicted_segments returned: to_retrieve is built, segmentation_data = {}
GetSegments(t) ==
    /\ stage[t] = "segs"
    /\ pc[t] = "returned"
    /\ to_retrieve' = [to_retrieve EXCEPT ![t] = ToRetrieve(classification_ret[t], ret[t].text)]
    /\ segmentation_data' = [segmentation_data EXCEPT ![t] = Segmentation({}, {})]
    /\ pc' = [pc EXCEPT ![t] = "masks"]
    /\ UNCHANGED <<retry_counter, stage, exc, ret, late, hist, callerVars, signed, traceVars,
                   uploadVars, accession, attempt, classification_ret, laterality, get_log,
                   raised_in, poolVars>>

\* for segment_id, uid, url in to_retrieve: segmentation_data[uid] = {} if new,
\* then fetch_segment_mask(url); after the last one, break.
GetMaskLoop(t) ==
    /\ pc[t] = "masks"
    /\ IF to_retrieve[t] # <<>>
       THEN /\ segmentation_data' = [segmentation_data EXCEPT ![t] =
                    Segmentation(segmentation_data[t].images \cup {1},
                                 segmentation_data[t].labels)]
            /\ EnterInner(t, "mask")
            /\ hist' = [hist EXCEPT ![t] = NewHist(retry_counter["fetch_segment_mask"])]
       ELSE /\ pc' = [pc EXCEPT ![t] = "return"]
            /\ UNCHANGED <<segmentation_data, stage, exc, ret, hist>>
    /\ UNCHANGED <<retry_counter, late, callerVars, signed, traceVars, uploadVars, accession, attempt,
                   classification_ret, laterality, get_log, to_retrieve, raised_in, poolVars>>

\* segmentation_data[uid][segment_label] = fetch_segment_mask(url)
GetMask(t) ==
    /\ stage[t] = "mask"
    /\ pc[t] = "returned"
    /\ segmentation_data' = [segmentation_data EXCEPT ![t] =
            Segmentation(segmentation_data[t].images,
                         segmentation_data[t].labels \cup {Head(to_retrieve[t])})]
    /\ to_retrieve' = [to_retrieve EXCEPT ![t] = Tail(to_retrieve[t])]
    /\ pc' = [pc EXCEPT ![t] = "masks"]
    /\ UNCHANGED <<retry_counter, stage, exc, ret, late, hist, callerVars, signed, traceVars,
                   uploadVars, accession, attempt, classification_ret, laterality, get_log,
                   raised_in, poolVars>>

\* except REMOTE_ERRORS around fetch_segment_mask: log and continue, which
\* here continues the loop over to_retrieve.
GetMaskExcept(t) == stage[t] = "mask" /\ GetExceptAs(t, FALSE)

\* The frame of get() is left: its locals are gone and the thread is free.
LeaveGet(t) ==
    /\ pc' = [pc EXCEPT ![t] = "idle"]
    /\ stage' = [stage EXCEPT ![t] = "none"]
    /\ exc' = [exc EXCEPT ![t] = NoExc]
    /\ ret' = [ret EXCEPT ![t] = NoValue]
    /\ late' = [late EXCEPT ![t] = FALSE]
    /\ hist' = [hist EXCEPT ![t] = NoHist]
    /\ accession' = [accession EXCEPT ![t] = 0]
    /\ attempt' = [attempt EXCEPT ![t] = 0]
    /\ classification_ret' = [classification_ret EXCEPT ![t] = NoValue]
    /\ segmentation_data' = [segmentation_data EXCEPT ![t] = NoValue]
    /\ laterality' = [laterality EXCEPT ![t] = NoValue]
    /\ get_log' = [get_log EXCEPT ![t] = NoValue]
    /\ to_retrieve' = [to_retrieve EXCEPT ![t] = <<>>]
    /\ raised_in' = [raised_in EXCEPT ![t] = {}]

\* return {...}: the pool keeps the result; the thread is free again.
GetReturn(t) ==
    /\ pc[t] = "return"
    /\ futures' = Append(futures, Result(t))
    /\ LeaveGet(t)
    /\ UNCHANGED <<retry_counter, callerVars, signed, traceVars, uploadVars, max_workers, accessions,
                   queue>>

\* An exception leaves get(): the pool keeps it for the result of that item.
GetPropagate(t) ==
    /\ pc[t] = "propagate"
    /\ futures' = Append(futures, [type |-> "exception", accession |-> accession[t],
                                    exc |-> exc[t].kind])
    /\ LeaveGet(t)
    /\ UNCHANGED <<retry_counter, callerVars, signed, traceVars, uploadVars, max_workers, accessions,
                   queue>>

(* ---------------- bulk_get() ---------------- *)

Range(q) == {q[i] : i \in 1..Len(q)}

Indices(q) == [i \in 1..Len(q) |-> i]

\* A list handed to the pool as it came.
Dedup_AsGiven(q) == q

\* accessions = list(set(accessions))
Dedup(q) == SeqOfSet(Range(q))

\* The accession lists bulk_get is called with.
Inputs == UNION {[1..n -> 1..MaxAccessions] : n \in 1..(MaxAccessions + 1)}

InitPool(workers, inputs) ==
    /\ InitThreads
    /\ NoUpload
    /\ hfn = "get_study_details"
    /\ hcalls = 0
    /\ pc = [t \in Threads |-> "idle"]
    /\ stage = [t \in Threads |-> "none"]
    /\ max_workers = workers
    /\ accessions \in inputs
    /\ queue = Dedup(accessions)
    /\ futures = <<>>

NextGet ==
    \E t \in Threads :
        \/ GetStart(t)
        \/ GetLoop(t)
        \/ GuardStep(t)
        \/ CallStep(t, Events(Fn(t)))
        \/ ExceptStep(t)
        \/ TickStep(t)
        \/ GetFetchExcept(t)
        \/ GetDissect(t)
        \/ GetSegmentsExcept(t)
        \/ GetSegments(t)
        \/ GetMaskLoop(t)
        \/ GetMask(t)
        \/ GetMaskExcept(t)
        \/ GetReturn(t)

\* bulk_get with max_workers = 1: one get() after another.
SpecGet == InitPool(1, Inputs) /\ [][NextGet]_vars

\* The filter answers for studies whose findings carry no segment to fetch.
NoMaskEvents ==
    {ev \in Events("fetch_model_response") :
        ev.type = "response" => \A sg \in ev.text.segments : sg.laterality}

NextBulkGet ==
    \E t \in Threads :
        \/ GetStart(t)
        \/ GetLoop(t)
        \/ GuardStep(t)
        \/ CallStep(t, NoMaskEvents)
        \/ ExceptStep(t)
        \/ TickStep(t)
        \/ GetFetchExcept(t)
        \/ GetDissect(t)
        \/ GetReturn(t)

\* bulk_get with two pool threads and an accession for each.
SpecBulkGet == InitPool(2, {<<1, 2>>, <<2, 1, 2>>}) /\ [][NextBulkGet]_vars

\* A step of pool thread t while the service never finishes a study: every
\* filter request is answered with an empty list, PENDING or IN_PROGRESS, or
\* fails (a status that is not 200, a transport error).
StuckStep(t) ==
    \/ GetStart(t)
    \/ GetLoop(t)
    \/ GuardStep(t)
    \/ CallStep(t, {ev \in Events("fetch_model_response") :
                       ev.type = "response" => (ev.status_code # 200 \/ IsPending(ev.text))})
    \/ ExceptStep(t)
    \/ TickStep(t)
    \/ GetFetchExcept(t)
    \/ GetReturn(t)

NextStuck == \E t \in Threads : StuckStep(t)

\* bulk_get with two pool threads against such a service: each thread goes
\* on running while it has a step to take, and the clock each get() reads
\* goes on past get_timeout.
SpecBulkGetStuck ==
    /\ InitPool(2, {<<1, 2>>, <<2, 1, 2>>})
    /\ [][NextStuck]_vars
    /\ \A t \in Threads : WF_vars(StuckStep(t)) /\ WF_vars(TickStep(t))

(* ---------------- update_uids() ---------------- *)

\* A dataset as read from disk: dataset n of study st, ordered as accession ac.
Dataset(st, ac, n) ==
    [AccessionNumber |-> <<"acc", ac>>,
     PatientID |-> <<"pat", st>>,
     StudyInstanceUID |-> <<"study", st>>,
     SeriesInstanceUID |-> <<"series", n>>,
     SOPInstanceUID |-> <<"sop", n>>]

\* The k-th identifier pydicom.uid.generate_uid() / shortuuid.uuid() hands out.
Generated(k) == <<"gen", k>>

\* update_uids with the accession always taken from the study identifier.
NewIds_AccessionIsStudy(ds, dsl, j, regen, match, u) ==
    LET first == ds[dsl[1]]
        dse == ds[dsl[j]]
        new_studyinstanceuid == IF regen THEN Generated(u + 2) ELSE first.StudyInstanceUID
    IN [AccessionNumber |-> new_studyinstanceuid,
        PatientID |-> IF regen THEN Generated(u + 1) ELSE first.PatientID,
        StudyInstanceUID |-> new_studyinstanceuid,
        SeriesInstanceUID |-> IF regen THEN Generated(u + 3 + 2 * j) ELSE dse.SeriesInstanceUID,
        SOPInstanceUID |-> IF regen THEN Generated(u + 2 + 2 * j) ELSE dse.SOPInstanceUID]

\* The identifiers update_uids gives to the j-th dataset of dsl, u identifiers
\* having been generated before the call.
NewIds(ds, dsl, j, regen, match, u) ==
    LET first == ds[dsl[1]]
        dse == ds[dsl[j]]
        new_patientid == IF regen THEN Generated(u + 1) ELSE first.PatientID
        new_studyinstanceuid == IF regen THEN Generated(u + 2) ELSE first.StudyInstanceUID
        new_accession ==
            IF match THEN new_studyinstanceuid
            ELSE IF regen THEN Generated(u + 3)
            ELSE first.AccessionNumber
    IN [AccessionNumber |-> new_accession,
        PatientID |-> new_patientid,
        StudyInstanceUID |-> new_studyinstanceuid,
        SeriesInstanceUID |-> IF regen THEN Generated(u + 3 + 2 * j) ELSE dse.SeriesInstanceUID,
        SOPInstanceUID |-> IF regen THEN Generated(u + 2 + 2 * j) ELSE dse.SOPInstanceUID]

\* self.response_status_code = "": the entry has no status code yet.
NoStatus == 0

\* UploadMap(original..., new...): the response fields start blank.
UploadMap(orig, new) ==
    [original |-> orig, new |-> new, response_status_code |-> NoStatus]

\* The datasets after update_uids(dses, ...): dse.X = new_X for every dse of dsl.
UpdatedDatasets(ds, dsl, regen, match, u) ==
    [i \in DOMAIN ds |->
        IF \E j \in DOMAIN dsl : dsl[j] = i
        THEN NewIds(ds, dsl, CHOOSE j \in DOMAIN dsl : dsl[j] = i, regen, match, u)
        ELSE ds[i]]

\* internal_maps after update_uids(dses, ...): one UploadMap appended per dse.
UpdatedMaps(maps, ds, dsl, regen, match, u) ==
    maps \o [j \in DOMAIN dsl |-> UploadMap(ds[dsl[j]], NewIds(ds, dsl, j, regen, match, u))]

\* Identifiers generated by one call of update_uids.
UidsUsed(dsl, regen) == IF regen THEN 3 + 2 * Len(dsl) ELSE 0

(* ---------------- upload_images() ---------------- *)

\* A precondition that lets every batch through.
MixedBatch_Unchecked(ds, dsl) == FALSE

\* len(set(StudyInstanceUID)) != 1 or len(set(AccessionNumber)) != 1
MixedBatch(ds, dsl) ==
    \/ Cardinality({ds[dsl[j]].StudyInstanceUID : j \in DOMAIN dsl}) # 1
    \/ Cardinality({ds[dsl[j]].AccessionNumber : j \in DOMAIN dsl}) # 1

\* response = Response(); response.status_code = 500
FabricatedResponse == Response(500, "")

\* The frame of upload_images is left.
LeaveUpload(t) ==
    /\ pc' = [pc EXCEPT ![t] = "idle"]
    /\ stage' = [stage EXCEPT ![t] = "none"]
    /\ exc' = [exc EXCEPT ![t] = NoExc]
    /\ ret' = [ret EXCEPT ![t] = NoValue]
    /\ hist' = [hist EXCEPT ![t] = NoHist]
    /\ unit' = [unit EXCEPT ![t] = 0]
    /\ matching' = [matching EXCEPT ![t] = <<>>]
    /\ response' = [response EXCEPT ![t] = NoValue]

\* A pool thread takes the next unit and runs upload_images on it up to the
\* call of upload_image_helper: the precondition, update_uids, response = None.
UploadStart(t) ==
    /\ bulk = "pool"
    /\ pc[t] = "idle"
    /\ t <= max_workers
    /\ queue # <<>>
    /\ LET u == Head(queue)
           dsl == residuals[u]
       IN /\ queue' = Tail(queue)
          /\ unit' = [unit EXCEPT ![t] = u]
          /\ IF MixedBatch(datasets, dsl)
             THEN /\ pc' = [pc EXCEPT ![t] = "propagate"]
                  /\ exc' = [exc EXCEPT ![t] = [kind |-> "ValueError", detail |-> NoDetail]]
                  /\ UNCHANGED <<stage, ret, hist, datasets, internal_maps, uids, response>>
             ELSE /\ datasets' = UpdatedDatasets(datasets, dsl, regenerate_uids,
                                                 force_accession_equal_study_uid, uids)
                  /\ internal_maps' = UpdatedMaps(internal_maps, datasets, dsl, regenerate_uids,
                                                  force_accession_equal_study_uid, uids)
                  /\ uids' = uids + UidsUsed(dsl, regenerate_uids)
                  /\ response' = [response EXCEPT ![t] = None]
                  /\ EnterInner(t, "upload")
                  /\ hist' = [hist EXCEPT ![t] = NewHist(retry_counter["upload_image_helper"])]
    /\ UNCHANGED <<retry_counter, late, callerVars, signed, traceVars, getVars, max_workers,
                   accessions, futures, residuals, count, regenerate_uids, upload_by_study,
                   force_accession_equal_study_uid, bulk, matching>>

\* response = upload_image_helper(...) returned: on 200 the inference is
\* triggered, otherwise HTTPException is raised and caught two lines below,
\* where response is not None.
UploadSent(t) ==
    /\ stage[t] = "upload"
    /\ pc[t] = "returned"
    /\ response' = [response EXCEPT ![t] = ret[t]]
    /\ IF ret[t].status_code = 200
       THEN /\ EnterInner(t, "predict")
            /\ hist' = [hist EXCEPT ![t] = NewHist(retry_counter["study_predict_helper"])]
       ELSE /\ pc' = [pc EXCEPT ![t] =
                        IF IsRemoteError("HTTPException") THEN "maps" ELSE "propagate"]
            /\ exc' = [exc EXCEPT ![t] = [kind |-> "HTTPException", detail |-> NoDetail]]
            /\ UNCHANGED <<stage, ret, hist>>
    /\ UNCHANGED <<retry_counter, late, callerVars, signed, traceVars, getVars, poolVars, datasets,
                   internal_maps, uids, residuals, count, regenerate_uids, upload_by_study,
                   force_accession_equal_study_uid, bulk, unit,
                   matching>>

\* response = study_predict_helper(...) returned.
PredictSent(t) ==
    /\ stage[t] = "predict"
    /\ pc[t] = "returned"
    /\ response' = [response EXCEPT ![t] = ret[t]]
    /\ pc' = [pc EXCEPT ![t] = "maps"]
    /\ UNCHANGED <<retry_counter, stage, exc, ret, late, hist, callerVars, signed, traceVars, getVars,
                   poolVars, datasets, internal_maps, uids, residuals, count, regenerate_uids,
                   upload_by_study, force_accession_equal_study_uid, bulk, unit,
                   matching>>

\* except REMOTE_ERRORS as err: the response already held is kept, and a
\* response with status 500 is made when there is none.
UploadFailed(t) ==
    /\ stage[t] \in {"upload", "predict"}
    /\ pc[t] = "raised"
    /\ IF IsRemoteError(exc[t].kind)
       THEN /\ response' = [response EXCEPT ![t] =
                              IF response[t] # None THEN response[t] ELSE FabricatedResponse]
            /\ pc' = [pc EXCEPT ![t] = "maps"]
       ELSE /\ pc' = [pc EXCEPT ![t] = "propagate"]
            /\ response' = response
    /\ UNCHANGED <<retry_counter, stage, exc, ret, late, hist, callerVars, signed, traceVars, getVars,
                   poolVars, datasets, internal_maps, uids, residuals, count, regenerate_uids,
                   upload_by_study, force_accession_equal_study_uid, bulk, unit,
                   matching>>

\* An update that takes every entry of the list.
Matching_All(maps, study) == Indices(maps)

\* [m for m in internal_maps if m.new_studyinstanceuid == dses[0].StudyInstanceUID]
Matching(maps, study) ==
    SelectSeq(Indices(maps), LAMBDA i : maps[i].new.StudyInstanceUID = study)

\* map.response_status_code = response.status_code
WithStatus(maps, i, resp) ==
    [maps EXCEPT ![i] = [@ EXCEPT !.response_status_code = resp.status_code]]

\* dses[0].StudyInstanceUID in the upload_images of thread t
StudyOf(t) == datasets[residuals[unit[t]][1]].StudyInstanceUID

\* return response, dses[0].AccessionNumber, dses[0].StudyInstanceUID, dses
UploadResult(t) ==
    LET dsl == residuals[unit[t]] IN
    [type |-> "tuple",
     response |-> response[t],
     accession |-> datasets[dsl[1]].AccessionNumber,
     studyInstanceUid |-> datasets[dsl[1]].StudyInstanceUID,
     ds |-> dsl]

\* The list comprehension of the for statement is evaluated: the entries of
\* the study that are in the list at this moment.
UploadSelect(t) ==
    /\ pc[t] = "maps"
    /\ matching' = [matching EXCEPT ![t] = Matching(internal_maps, StudyOf(t))]
    /\ pc' = [pc EXCEPT ![t] = "assign"]
    /\ UNCHANGED <<retry_counter, stage, exc, ret, late, hist, callerVars, signed, traceVars, getVars,
                   poolVars, datasets, internal_maps, uids, residuals, count, regenerate_uids,
                   upload_by_study, force_accession_equal_study_uid, bulk, unit, response>>

\* One turn of the for loop: the next entry gets the status of the response.
UploadAssign(t) ==
    /\ pc[t] = "assign"
    /\ matching[t] # <<>>
    /\ internal_maps' = WithStatus(internal_maps, Head(matching[t]), response[t])
    /\ matching' = [matching EXCEPT ![t] = Tail(matching[t])]
    /\ UNCHANGED <<retryVars, callerVars, signed, traceVars, getVars, poolVars, datasets, uids,
                   residuals, count, regenerate_uids, upload_by_study,
                   force_accession_equal_study_uid, bulk, unit, response>>

\* The for loop is over and upload_images returns.
UploadReturn(t) ==
    /\ pc[t] = "assign"
    /\ matching[t] = <<>>
    /\ futures' = [futures EXCEPT ![unit[t]] = UploadResult(t)]
    /\ LeaveUpload(t)
    /\ UNCHANGED <<retry_counter, late, callerVars, signed, traceVars, getVars, max_workers,
                   accessions, queue, datasets, internal_maps, uids, residuals, count,
                   regenerate_uids, upload_by_study, force_accession_equal_study_uid, bulk>>

\* An exception leaves upload_images: the pool keeps it as the result of the unit.
UploadPropagate(t) ==
    /\ pc[t] = "propagate"
    /\ unit[t] # 0
    /\ futures' = [futures EXCEPT ![unit[t]] = Raised(exc[t].kind)]
    /\ LeaveUpload(t)
    /\ UNCHANGED <<retry_counter, late, callerVars, signed, traceVars, getVars, max_workers,
                   accessions, queue, datasets, internal_maps, uids, residuals, count,
                   regenerate_uids, upload_by_study, force_accession_equal_study_uid, bulk>>

(* ---------------- bulk_upload_image() ---------------- *)

\* create_gen: one unit per dataset, or one unit per StudyInstanceUID (the
\* studies in the order of their first dataset).
create_gen(ds, by_study) ==
    IF ~by_study
    THEN [i \in 1..Len(ds) |-> <<i>>]
    ELSE LET firsts == SelectSeq(Indices(ds),
                 LAMBDA i : \A j \in 1..(i - 1) :
                     ds[j].StudyInstanceUID # ds[i].StudyInstanceUID)
         IN [k \in 1..Len(firsts) |->
                SelectSeq(Indices(ds),
                    LAMBDA i : ds[i].StudyInstanceUID = ds[firsts[k]].StudyInstanceUID)]

\* status 400 and "DecodeJsonError: 'images' must contain less than or equal to" in text
TooManyImages(r) == r.status_code = 400 /\ r.text = "too many images"

\* Residuals that take nothing.
Residuals_None(fs) == <<>>

\* Residuals that take every result that is not a 200.
Residuals_EveryNon200(fs) ==
    LET failing == SelectSeq(fs, LAMBDA f : f.response.status_code # 200)
    IN [k \in 1..Len(failing) |-> failing[k].ds]

\* Residuals taken from the first result only.
Residuals_FirstOnly(fs) ==
    LET failing == SelectSeq(SubSeq(fs, 1, 1),
            LAMBDA f : ~TooManyImages(f.response) /\ f.response.status_code # 200)
    IN [k \in 1..Len(failing) |-> failing[k].ds]

\* A collection that queues every unit again, whatever its answer.
Residuals_Everything(fs) == [k \in 1..Len(fs) |-> fs[k].ds]

\* The units appended to residuals after a pass.
Residuals(fs) ==
    LET failing == SelectSeq(fs,
            LAMBDA f : ~TooManyImages(f.response) /\ f.response.status_code # 200)
    IN [k \in 1..Len(failing) |-> failing[k].ds]

\* A pass that leaves regenerate_uids as it was.
AfterPass_Kept(regen) == regen

\* regenerate_uids = False  # only need to regenerate uids the first time
AfterPass(regen) == FALSE

\* A limit that is exceeded after the first pass.
OverLimit_AfterFirstPass(c) == c > 1

\* if count > 2: raise Exception(exception_text)
OverLimit(c) == c > PassLimit

\* The dataset lists bulk_upload_image is called with.
UploadInputs ==
    UNION {{ds \in [1..n -> {Dataset(st, ac, 0) : st \in 1..MaxStudies, ac \in 1..MaxStudies}] :
               ds[1] = Dataset(1, 1, 0)} : n \in 1..MaxDatasets}

\* ModelInterface(max_workers=workers) and bulk_upload_image(dses, ...) on one of
\* the dataset lists of inputs, up to the while loop: residuals =
\* create_gen(...), count = 1.
InitUploadFrom(workers, inputs) ==
    /\ InitThreads
    /\ hfn = "upload_image_helper"
    /\ hcalls = 0
    /\ pc = [t \in Threads |-> "idle"]
    /\ stage = [t \in Threads |-> "none"]
    /\ max_workers = workers
    /\ accessions = <<>>
    /\ queue = <<>>
    /\ futures = <<>>
    /\ \E ds \in inputs :
        datasets = [i \in DOMAIN ds |->
                        [ds[i] EXCEPT !.SeriesInstanceUID = <<"series", i>>,
                                      !.SOPInstanceUID = <<"sop", i>>]]
    /\ internal_maps = <<>>
    /\ uids = 0
    /\ upload_by_study \in BOOLEAN
    /\ regenerate_uids \in BOOLEAN
    /\ force_accession_equal_study_uid \in BOOLEAN
    /\ residuals = create_gen(datasets, upload_by_study)
    /\ count = 1
    /\ bulk = "loop"
    /\ exception_text = NoValue
    /\ dses = datasets
    /\ passes = <<>>
    /\ sent = {}

\* bulk_upload_image(dses, ...) on datasets whose patient goes with the study.
InitUpload(workers) == InitUploadFrom(workers, UploadInputs)

\* The dataset lists in which the second dataset may name another patient
\* than its study and accession suggest: PatientID is read from the file like
\* every other element and nothing compares it across the datasets.
PatientInputs ==
    {[i \in DOMAIN ds |-> IF i = 1 THEN ds[i] ELSE [ds[i] EXCEPT !.PatientID = <<"pat", p>>]] :
        ds \in UploadInputs, p \in 1..MaxStudies}

\* while count == 1 or len(residuals) > 0: the units go to a new pool;
\* otherwise return responses, accessions, studyInstanceUids.
BulkLoop ==
    /\ bulk = "loop"
    /\ IF count = 1 \/ Len(residuals) > 0
       THEN /\ queue' = Indices(residuals)
            /\ futures' = [i \in 1..Len(residuals) |-> NoValue]
            /\ passes' = Append(passes, [input |-> residuals, results |-> <<>>])
            /\ bulk' = "pool"
       ELSE /\ bulk' = "returned"
            /\ UNCHANGED <<queue, futures, passes>>
    /\ UNCHANGED <<retryVars, callerVars, signed, getVars, max_workers, accessions, datasets,
                   internal_maps, uids, residuals, count, regenerate_uids, upload_by_study,
                   force_accession_equal_study_uid, unit, matching, response,
                   exception_text, dses, sent>>

\* An exception text that names no unit.
ExceptionText_Empty(fs) == <<>>

\* '...'.join([f"{r.text} for {a}/{s}" for r, a, s, _ in futures if r.status_code != 200]):
\* one item per result that is not a 200, in the order of the results.
ExceptionText(fs) ==
    LET failing == SelectSeq(fs, LAMBDA f : f.response.status_code # 200)
    IN [k \in 1..Len(failing) |->
           [text |-> failing[k].response.text,
            accession |-> failing[k].accession,
            studyInstanceUid |-> failing[k].studyInstanceUid]]

\* The with block is left (every worker has finished) and futures = list(futures)
\* raises what a worker raised; otherwise the residuals are collected,
\* regenerate_uids = False, count += 1 and the limit is tested.
BulkCollect ==
    /\ bulk = "pool"
    /\ queue = <<>>
    /\ \A t \in Threads : pc[t] = "idle"
    /\ passes' = [passes EXCEPT ![Len(passes)].results = futures]
    /\ IF \E i \in DOMAIN futures : futures[i].type = "raise"
       THEN /\ bulk' = "propagated"
            /\ UNCHANGED <<residuals, count, regenerate_uids, exception_text>>
       ELSE /\ residuals' = Residuals(futures)
            /\ regenerate_uids' = AfterPass(regenerate_uids)
            /\ count' = count + 1
            /\ IF OverLimit(count + 1)
               THEN /\ exception_text' = ExceptionText(futures)
                    /\ bulk' = "raised"
               ELSE /\ exception_text' = exception_text
                    /\ bulk' = "loop"
    /\ UNCHANGED <<retryVars, callerVars, signed, getVars, poolVars, datasets, internal_maps, uids,
                   upload_by_study, force_accession_equal_study_uid, unit, matching, response,
                   dses, sent>>

NextUpload ==
    \/ BulkLoop
    \/ BulkCollect
    \/ \E t \in Threads :
        \/ UploadStart(t)
        \/ GuardStep(t)
        \/ CallStep(t, Events(Fn(t)))
        \/ ExceptStep(t)
        \/ UploadSent(t)
        \/ PredictSent(t)
        \/ UploadFailed(t)
        \/ UploadSelect(t)
        \/ UploadAssign(t)
        \/ UploadReturn(t)
        \/ UploadPropagate(t)

\* bulk_upload_image with max_workers = 1.
SpecUpload == InitUpload(1) /\ [][NextUpload]_vars

\* The same, with the interpreter never stopping while a step is possible.
SpecUploadFair == SpecUpload /\ WF_vars(NextUpload)

\* bulk_upload_image with max_workers = 1 on datasets of any patient.
SpecUploadIds == InitUploadFrom(1, PatientInputs) /\ [][NextUpload]_vars

\* What a request meets while two units are uploaded side by side: an upload
\* meets a transport error, a 200 or a 500, a predict request is answered.
SideBySideEvents(f) ==
    IF f = "upload_image_helper"
    THEN {ev \in Events(f) : ev.type = "response" => ev.status_code # 400}
    ELSE {ev \in Events(f) : ev.type = "response"}

NextBulkUpload ==
    \/ BulkLoop
    \/ BulkCollect
    \/ \E t \in Threads :
        \/ UploadStart(t)
        \/ GuardStep(t)
        \/ CallStep(t, SideBySideEvents(Fn(t)))
        \/ ExceptStep(t)
        \/ UploadSent(t)
        \/ PredictSent(t)
        \/ UploadFailed(t)
        \/ UploadSelect(t)
        \/ UploadAssign(t)
        \/ UploadReturn(t)

\* ModelInterface(max_workers=2) and bulk_upload_image(dses, upload_by_study=False)
\* with a dataset for each thread: a unit per dataset, which passes the test
\* of upload_images.
InitBulkUpload ==
    /\ InitUpload(2)
    /\ Len(datasets) = MaxDatasets
    /\ ~upload_by_study
    /\ ~force_accession_equal_study_uid

\* bulk_upload_image with two pool threads.
SpecBulkUpload == InitBulkUpload /\ [][NextBulkUpload]_vars

(* ---------------- get(), one call after another (SpecGet) ---------------- *)

InWrapped(t) ==
    /\ stage[t] \in {"fetch", "segs", "mask"}
    /\ pc[t] \in {"guard", "call", "except", "returned", "raised"}

\* C3: every call of a wrapped function starts with the full budget and
\* invokes the function at least once.
C3_EveryCallStartsFull ==
    \A t \in Threads :
        InWrapped(t) =>
            /\ hist[t].entry = Retries(Fn(t))
            /\ pc[t] \in {"returned", "raised"} => hist[t].invoked >= 1

\* C6: a result is returned only from an attempt in which no stage raised:
\* get_log holds no trace of the attempt get() returns from.
C6_FailedStageEndsAttempt ==
    \A t \in Threads :
        (pc[t] = "return" /\ get_log[t].type = "log") =>
            \A i \in DOMAIN get_log[t].traces : get_log[t].traces[i].attempt # attempt[t]

C24_NoVisionStopsGet ==
    \A t \in Threads :
        /\ (stage[t] = "fetch" /\ ret[t].type = "response" /\ ~ret[t].text.vision) =>
            /\ pc[t] \in {"returned", "return"}
            /\ pc[t] = "return" =>
                /\ Result(t).classification = VisionErrors
                /\ Result(t).segmentation = VisionErrors
                /\ Result(t).laterality = VisionErrors
        /\ (stage[t] \in {"segs", "mask"} /\ pc[t] \in {"guard", "call", "except"}) =>
            /\ classification_ret[t].type = "response"
            /\ classification_ret[t].text.vision

\* The payload without a vision section came in the second attempt.
C24_Witness ==
    \E t \in Threads :
        /\ stage[t] = "fetch"
        /\ pc[t] = "return"
        /\ ret[t].type = "response"
        /\ ~ret[t].text.vision
        /\ attempt[t] = 1
        /\ Result(t).classification = VisionErrors

\* C25: in the result of get(), get_log is None exactly when no wrapped call
\* raised in any attempt and the classification is a payload (with its vision
\* section); and when get() returns a payload after attempts in which a call
\* raised, get_log holds a trace of each of those attempts and of no other.
C25_LogNoneIffFullSuccess ==
    \A t \in Threads :
        pc[t] = "return" =>
            /\ Result(t).get_log = None <=>
                    (raised_in[t] = {} /\ Result(t).classification.type = "response")
            /\ (Result(t).classification.type = "response" /\ raised_in[t] # {}) =>
                /\ Result(t).get_log.type = "log"
                /\ {Result(t).get_log.traces[i].attempt :
                        i \in DOMAIN Result(t).get_log.traces} = raised_in[t]

\* The payload was returned in the third attempt, after two failed ones.
C25_Witness ==
    \E t \in Threads :
        /\ pc[t] = "return"
        /\ Result(t).classification.type = "response"
        /\ raised_in[t] = {0, 1}
        /\ Len(Result(t).get_log.traces) = 2

\* C39: in every result get() has returned, and in the one it is about to
\* return, classification, segmentation and laterality are all 'ERROR' or
\* none of them is, and with 'ERROR' get_log is not None.
C39_ErrorAllOrNone ==
    \A r \in {futures[i] : i \in DOMAIN futures} \cup {Result(t) : t \in {u \in Threads : pc[u] = "return"}} :
        r.type = "result" =>
            /\ (r.classification = ERROR) = (r.segmentation = ERROR)
            /\ (r.classification = ERROR) = (r.laterality = ERROR)
            /\ r.classification = ERROR => r.get_log # None

\* get() has returned 'ERROR' for an accession after an attempt that had
\* already filled laterality and segmentation from a payload.
C39_Witness ==
    /\ \E i \in DOMAIN futures :
        /\ futures[i].type = "result"
        /\ futures[i].classification = ERROR
        /\ futures[i].laterality = ERROR
        /\ Len(futures[i].get_log.traces) >= OuterAttempts
        /\ \E k \in DOMAIN futures[i].get_log.traces :
               futures[i].get_log.traces[k].stage = "segs"

\* C36: while get() holds a payload with a vision section, the laterality
\* mapping holds exactly the segments that carry a laterality tag and masks are
\* kept only under segments that carry none; fetch_predicted_segments is
\* called if and only if there is a segment without a tag, and a call of it
\* that has ended has sent the segment-status request; without such a segment
\* the segmentation get() returns is the empty mapping.
C36_SegmentsSortedAndRequested ==
    \A t \in Threads :
        /\ (/\ classification_ret[t].type = "response"
            /\ classification_ret[t].text.vision
            /\ pc[t] # "idle") =>
               LET segs == classification_ret[t].text.segments
                   tagged == {sg.id : sg \in {x \in segs : x.laterality}}
                   untagged == {sg.id : sg \in {x \in segs : ~x.laterality}}
               IN /\ laterality[t] = [type |-> "map", labels |-> tagged]
                  /\ segmentation_data[t].labels \subseteq untagged
                  /\ stage[t] \in {"segs", "mask"} => untagged # {}
                  /\ (pc[t] = "return" /\ untagged # {}) => stage[t] \in {"segs", "mask"}
                  /\ (pc[t] = "return" /\ untagged = {}) =>
                        segmentation_data[t] = [type |-> "map", images |-> {}, labels |-> {}]
        /\ (stage[t] = "segs" /\ pc[t] \in {"returned", "raised"}) => hist[t].invoked >= 1

(* ---------------- bulk_get with two pool threads (SpecBulkGet) ---------------- *)

InInner(t) == pc[t] \in {"guard", "call", "except"}

\* C9: a step of one pool thread leaves the budget of the wrapped call another
\* thread is in as it was.
C9_WorkersShareNoBudget ==
    [][\A a, b \in Threads :
         (a # b /\ pc'[a] # pc[a] /\ InInner(b))
         => retry_counter'[Fn(b)].retries = retry_counter[Fn(b)].retries]_vars

\* How often get() is to run, runs or has run for accession a.
RunsOf(a) ==
    Cardinality({i \in DOMAIN queue : queue[i] = a})
    + Cardinality({t \in Threads : accession[t] = a})
    + Cardinality({i \in DOMAIN futures : futures[i].accession = a})

\* bulk_get has left the pool: futures = list(futures).
PoolDone == queue = <<>> /\ \A t \in Threads : pc[t] = "idle"

\* C28: get() is run once for each distinct accession of the list, however
\* often the list names it, and for nothing else; the list bulk_get returns
\* holds one result for each distinct accession, no two for the same.
C28_OneGetPerAccession ==
    /\ \A a \in Range(accessions) : RunsOf(a) = 1
    /\ \A t \in Threads : accession[t] # 0 => accession[t] \in Range(accessions)
    /\ PoolDone =>
        /\ Len(futures) = Cardinality(Range(accessions))
        /\ \A i \in DOMAIN futures :
            /\ futures[i].type = "result"
            /\ futures[i].accession \in Range(accessions)
        /\ \A i, j \in DOMAIN futures :
            i # j => futures[i].accession # futures[j].accession

\* A list that names one of two accessions twice, and both results are in.
C28_Witness ==
    /\ PoolDone
    /\ Len(accessions) = 3
    /\ Len(futures) = 2
    /\ futures[1].accession # futures[2].accession

\* C38: in every state, also while two pool threads are inside the same
\* wrapped function, the budget of every decoration is at least 0 and at most
\* its retries argument (or the 10 of a polling re-arm, where that is more).
C38_BudgetNeverNegative ==
    \A f \in Decorated :
        /\ retry_counter[f].retries >= 0
        /\ retry_counter[f].retries <=
              IF PassRetryCounter(f) /\ RearmRetries > Retries(f)
              THEN RearmRetries ELSE Retries(f)

\* C37: when the service keeps every study pending or failing, every get()
\* of bulk_get eventually returns: the pool runs out of work and every thread
\* is left idle.
C37_EveryGetReturns == <>PoolDone

(* ---------------- bulk_upload_image, one worker (SpecUpload) ---------------- *)

\* Passes bulk_upload_image has completed.
PassesDone == count - 1

\* C10: residual failures make bulk_upload_image fail fatally only after the
\* two retry passes that follow the first pass: when it raises with units
\* still failing, three passes have been run.
C10_ThirdPassBeforeFatal ==
    (bulk = "raised" /\ residuals # <<>>) => PassesDone = DocumentedPasses

\* C11: bulk_upload_image raises only while units are still failing: when it
\* raises, some unit of the last pass was not answered with status 200.
C11_FatalOnlyWithResiduals ==
    bulk = "raised" => \E i \in DOMAIN futures : futures[i].response.status_code # 200

\* The results of pass p that upload_images returned (empty until collected).
Returned(p) ==
    {passes[p].results[i] : i \in {j \in DOMAIN passes[p].results :
                                       passes[p].results[j].type = "tuple"}}

\* The units handed to the pool in pass p.
InputOf(p) == Range(passes[p].input)

\* The units a request was sent for in pass p.
RequestedIn(p) == {passes[p].input[r.unit] : r \in {x \in sent : x.pass = p}}

\* C12: a unit answered with status 400 and the image count error is in the
\* input of no later pass, and no request is sent for it in a later pass.
C12_TooManyNeverRequeued ==
    \A p \in DOMAIN passes : \A f \in Returned(p) :
        TooManyImages(f.response) =>
            \A q \in DOMAIN passes :
                q > p => f.ds \notin InputOf(q) /\ f.ds \notin RequestedIn(q)

\* Pass 2 has run after a pass in which one unit met the image count error.
C12_Witness ==
    /\ Len(passes) = 2
    /\ passes[2].results # <<>>
    /\ \E f \in Returned(1) : TooManyImages(f.response)

\* A result that is neither a 200 nor the image count error.
Retriable(f) == f.response.status_code # 200 /\ ~TooManyImages(f.response)

\* C13: when pass 1 has been collected, each of its units whose response is
\* neither a 200 nor the image count error goes to pass 2: it is in residuals
\* when the loop is tested, bulk_upload_image neither returns nor raises
\* before pass 2, and the unit is in the input of pass 2.
C13_FailedUnitsInPassTwo ==
    (Len(passes) >= 1 /\ bulk # "propagated") =>
        \A f \in Returned(1) :
            Retriable(f) =>
                /\ bulk # "returned"
                /\ Len(passes) = 1 => (bulk = "loop" /\ f.ds \in Range(residuals))
                /\ Len(passes) >= 2 => f.ds \in InputOf(2)

C13_Witness ==
    /\ Len(passes) = 2
    /\ \E f \in Returned(1) : Retriable(f) /\ f.ds \in InputOf(2)
    /\ \E f \in Returned(1) : ~Retriable(f)

\* return responses, accessions, studyInstanceUids
BulkResult ==
    [responses |-> [i \in DOMAIN futures |-> futures[i].response],
     accessions |-> [i \in DOMAIN futures |-> futures[i].accession],
     studyInstanceUids |-> [i \in DOMAIN futures |-> futures[i].studyInstanceUid]]

\* Pass 1 has been collected and every unit was answered with status 200.
FirstPassAllOk ==
    /\ Len(passes) >= 1
    /\ passes[1].results # <<>>
    /\ \A i \in DOMAIN passes[1].results :
        /\ passes[1].results[i].type = "tuple"
        /\ passes[1].results[i].response.status_code = 200

\* C15: when every unit was answered 200 on pass 1, no second pass is run and
\* nothing is raised: bulk_upload_image returns, and the three lists it
\* returns hold, for each unit in turn, its response, accession and study
\* identifier.
C15_OnePassWhenAllOk ==
    FirstPassAllOk =>
        /\ Len(passes) = 1
        /\ bulk \in {"loop", "returned"}
        /\ bulk = "loop" => residuals = <<>>
        /\ bulk = "returned" =>
            /\ Len(BulkResult.responses) = Len(passes[1].input)
            /\ Len(BulkResult.accessions) = Len(passes[1].input)
            /\ Len(BulkResult.studyInstanceUids) = Len(passes[1].input)
            /\ \A i \in DOMAIN passes[1].input :
                LET first == datasets[passes[1].input[i][1]] IN
                /\ BulkResult.responses[i].status_code = 200
                /\ BulkResult.accessions[i] = first.AccessionNumber
                /\ BulkResult.studyInstanceUids[i] = first.StudyInstanceUID

C15_Witness ==
    /\ FirstPassAllOk
    /\ bulk = "returned"
    /\ Len(BulkResult.responses) = 2

\* The wrapped call of thread t in the given stage of upload_images ended with
\* the ConnectionError of an exhausted budget.
Exhausted(t, st) ==
    /\ stage[t] = st
    /\ exc[t].kind = "ConnectionError"
    /\ pc[t] \notin {"guard", "call", "except", "raised"}

\* C16: when upload_image_helper ends by exhaustion, upload_images does not
\* raise: it goes on to its return with a response of status 500, and returns
\* it with the accession, the study identifier and the datasets of the unit.
C16_UploadExhaustionGives500 ==
    \A t \in Threads :
        Exhausted(t, "upload") =>
            /\ pc[t] \in {"maps", "assign"}
            /\ response[t].type = "response"
            /\ response[t].status_code = 500
            /\ UploadResult(t).response = response[t]
            /\ UploadResult(t).ds = residuals[unit[t]]
            /\ \A i \in Range(UploadResult(t).ds) :
                /\ datasets[i].AccessionNumber = UploadResult(t).accession
                /\ datasets[i].StudyInstanceUID = UploadResult(t).studyInstanceUid

\* Exhaustion from a full budget, after failed requests.
C16_Witness ==
    \E t \in Threads :
        /\ Exhausted(t, "upload")
        /\ pc[t] = "maps"
        /\ hist[t].entry = UploadRetries
        /\ hist[t].failed = MaxCounted

\* C17: when study_predict_helper ends by exhaustion after the upload was
\* answered 200, upload_images returns a response of status 500.
C17_PredictExhaustionGives500 ==
    \A t \in Threads :
        Exhausted(t, "predict") => response[t].status_code = 500

\* The requests sent to a path.
SentTo(path) == {r \in sent : r.path = path}

\* Thread t is inside the wrapped call of its stage.
Calling(t, st) == stage[t] = st /\ pc[t] \in {"guard", "call", "except"}

\* C18: a predict request is sent only while upload_images holds the 200 of
\* the upload of the same unit; it follows an upload request of the same
\* unit and pass and carries the study identifier the unit's datasets have;
\* and a call whose upload was answered otherwise, or failed, has sent none.
C18_PredictOnlyAfterUpload200 ==
    /\ \A t \in Threads :
        Calling(t, "predict") =>
            response[t].type = "response" /\ response[t].status_code = 200
    /\ \A r \in SentTo("/v1/studies/predict") :
        /\ \E u \in SentTo("/v1/images/upload") :
            /\ u.pass = r.pass
            /\ u.unit = r.unit
            /\ \A j \in DOMAIN u.images : u.images[j].StudyInstanceUID = r.studyInstanceUid
        /\ \A i \in Range(passes[r.pass].input[r.unit]) :
            datasets[i].StudyInstanceUID = r.studyInstanceUid
    /\ \A t \in Threads :
        (stage[t] = "upload" /\ pc[t] \in {"raised", "maps", "assign", "propagate"}) =>
            ~\E r \in SentTo("/v1/studies/predict") : r.pass = count /\ r.unit = unit[t]

\* A predict request that carries a regenerated study identifier.
C18_Witness ==
    \E r \in SentTo("/v1/studies/predict") : r.studyInstanceUid = Generated(2)

\* C19: once an upload request of a call of upload_images is answered with a
\* status other than 200, no further upload request is sent by that call (it
\* is the only one when no request failed before it), the wrapper returns the
\* answer, and upload_images goes to its return with that response.
C19_Non200UploadIsTerminal ==
    \A t \in Threads :
        (stage[t] = "upload" /\ hist[t].status \notin {0, 200}) =>
            /\ pc[t] \in {"returned", "maps", "assign"}
            /\ ret[t].type = "response"
            /\ ret[t].status_code = hist[t].status
            /\ hist[t].failed = 0 => hist[t].invoked = 1
            /\ pc[t] \in {"maps", "assign"} =>
                /\ response[t] = ret[t]
                /\ UploadResult(t).response.status_code = hist[t].status

C19_Witness ==
    \E t \in Threads :
        /\ stage[t] = "upload"
        /\ pc[t] = "maps"
        /\ hist[t].status = 500
        /\ hist[t].invoked = 1

\* Two datasets of the unit were handed in with different study identifiers
\* or different accession numbers.
SpansSeveral(u) ==
    \E i, j \in Range(u) :
        \/ dses[i].StudyInstanceUID # dses[j].StudyInstanceUID
        \/ dses[i].AccessionNumber # dses[j].AccessionNumber

C27_SameIdsOnLaterPass ==
    \A r1, r2 \in SentTo("/v1/images/upload") :
        (/\ r1.pass = 1
         /\ r2.pass > 1
         /\ passes[r2.pass].input[r2.unit] = passes[1].input[r1.unit])
        => r2.images = r1.images

\* A unit uploaded with regenerated identifiers on pass 1 is uploaded again.
C27_Witness ==
    \E r1, r2 \in SentTo("/v1/images/upload") :
        /\ r1.pass = 1
        /\ r2.pass = 2
        /\ passes[2].input[r2.unit] = passes[1].input[r1.unit]
        /\ r1.images[1].StudyInstanceUID = Generated(2)
        /\ r1.images[1].StudyInstanceUID # dses[passes[1].input[r1.unit][1]].StudyInstanceUID

\* C29: when bulk_upload_image has returned or raised at the pass limit, the
\* UploadMap list holds one entry for each dataset handed in, and the original
\* identifiers of each entry are those of a dataset as it was handed in.
C29_OneMapPerImage ==
    bulk \in {"returned", "raised"} =>
        /\ Len(internal_maps) = Len(dses)
        /\ \A m \in DOMAIN internal_maps : internal_maps[m].original \in Range(dses)

\* C40: the units handed to the pool in a pass after the first are among the
\* units whose result in the pass before had a status other than 200; a
\* unit whose result had status 200 is in the input of no later pass and no
\* request is sent for it in a later pass.
C40_OkUnitsNotReuploaded ==
    \A p \in DOMAIN passes :
        /\ p > 1 =>
              InputOf(p) \subseteq
                  {f.ds : f \in {g \in Returned(p - 1) : g.response.status_code # 200}}
        /\ \A f \in Returned(p) :
              f.response.status_code = 200 =>
                  \A q \in DOMAIN passes :
                      q > p => f.ds \notin InputOf(q) /\ f.ds \notin RequestedIn(q)

\* Pass 2 has run on the unit that failed in pass 1, in which another unit
\* was answered with status 200.
C40_Witness ==
    /\ Len(passes) = 2
    /\ passes[2].results # <<>>
    /\ InputOf(2) # {}
    /\ \E f \in Returned(1) : f.response.status_code = 200
    /\ RequestedIn(2) # {}

(* ---------------- upload_images on datasets of any patient (SpecUploadIds) ---------------- *)

BulkEnded == bulk \in {"returned", "raised", "propagated"}

\* The Exception names the unit of f with the body of its response.
Names(text, f) ==
    \E k \in DOMAIN text :
        /\ text[k].text = f.response.text
        /\ text[k].accession = f.accession
        /\ text[k].studyInstanceUid = f.studyInstanceUid

\* A unit was answered with a retriable failure in each of the passes run.
KeepsFailing ==
    /\ Len(passes) = PassLimit
    /\ \E f \in Returned(1) : \E g \in Returned(PassLimit) :
        Retriable(f) /\ Retriable(g) /\ g.ds = f.ds

\* C14: bulk_upload_image always comes to an end; a unit that fails on every
\* pass makes it end by raising, and the text of the Exception then holds the
\* response body of every unit of the last pass that was not answered 200.
C14_RaisesWithEveryFailure ==
    /\ <>BulkEnded
    /\ [](KeepsFailing => bulk = "raised")
    /\ [](bulk = "raised" =>
            \A f \in Returned(Len(passes)) :
                f.response.status_code # 200 => Names(exception_text, f))

C14_Witness ==
    /\ KeepsFailing
    /\ bulk = "raised"
    /\ Len(exception_text) = 2

(* ---------------- bulk_upload_image, two pool threads (SpecBulkUpload) ---------------- *)

\* Pass p has been collected: every unit of its input has a result.
Collected(p) ==
    /\ Len(passes[p].results) = Len(passes[p].input)
    /\ \A i \in DOMAIN passes[p].results : passes[p].results[i].type # "none"

\* C26: upload_images runs only between the start of a pass and its
\* collection, which waits for every worker; a pass is started only after the
\* pass before it was collected, and its units are the units of that pass
\* whose results were retriable failures, every result taken into account.
C26_PassesSequential ==
    /\ (\E t \in Threads : pc[t] # "idle") =>
        /\ bulk = "pool"
        /\ Len(passes) = count
        /\ passes[count].results = <<>>
    /\ \A p \in DOMAIN passes :
        p < Len(passes) =>
            /\ Collected(p)
            /\ passes[p + 1].input =
                   LET failing == SelectSeq(passes[p].results, Retriable)
                   IN [k \in 1..Len(failing) |-> failing[k].ds]
    /\ \A r \in sent : r.pass \in DOMAIN passes /\ r.unit \in DOMAIN passes[r.pass].input

\* Both workers are busy in pass 2, with the two units that failed in pass 1.
C26_Witness ==
    /\ Len(passes) = 2
    /\ Len(passes[2].input) = 2
    /\ \A t \in Threads : pc[t] \in {"guard", "call", "except"}

\* upload_images of thread t is at its return statement.
AtReturn(t) == pc[t] = "assign" /\ matching[t] = <<>>

\* No other unit of the pass has the study identifier of the unit of thread t.
OnlyUnitOfStudy(t) ==
    \A u \in DOMAIN residuals :
        u # unit[t] => datasets[residuals[u][1]].StudyInstanceUID # StudyOf(t)

keys(d) == {d[i][1] : i \in DOMAIN d}

item(d, key) == d[CHOOSE i \in DOMAIN d : d[i][1] = key][2]

\* The dicts of at most n items taken from items.
Dicts(items, n) ==
    UNION {{d \in [1..k -> items] : \A i, j \in 1..k : d[i][1] = d[j][1] => i = j} : k \in 0..n}

\* sorted(S), S a collection of distinct keys: the keys of S in the order of
\* Python's comparison of str (by code point, a prefix before its
\* extensions), in which the strings used as keys here are listed.
sorted(S) ==
    SelectSeq(<<"a", "b c", "content-type", "x-annalise-ai-app-version",
                "x-annalise-ai-client-id", "x-annalise-ai-signed-headers",
                "x-annalise-ai-timestamp">>,
              LAMBDA k : k \in S)

\* sep.join(q)
RECURSIVE join(_, _)
join(q, sep) ==
    IF q = <<>> THEN ""
    ELSE IF Len(q) = 1 THEN q[1]
    ELSE q[1] \o sep \o join(Tail(q), sep)

\* ' '.join(value.split()): white space at the ends is dropped and every run
\* inside becomes one space. Of the values used here one holds such runs.
split_join(value) ==
    CASE value = " TEST  ID " -> "TEST ID"
      [] OTHER -> value

\* quote(s, safe="~()*!.'"): every character but letters, digits, "_.-~" and
\* the safe ones is written as % and its byte in hex.
quote(s) ==
    CASE s = "b c" -> "b%20c"
      [] s = "x&y" -> "x%26y"
      [] OTHER -> s

\* method.upper()
upper(method) ==
    CASE method = "get" -> "GET"
      [] method = "post" -> "POST"
      [] OTHER -> method

\* A list of signed header names that also signs the application version.
signed_headers_WithAppVersion ==
    sorted({"x-annalise-ai-timestamp", "x-annalise-ai-client-id", "x-annalise-ai-app-version"})

\* sorted([HEADER_TIMESTAMP, HEADER_CLIENT_ID])
signed_headers == sorted({"x-annalise-ai-timestamp", "x-annalise-ai-client-id"})

\* sha256(body.encode("utf-8")).hexdigest(), the digest kept symbolic: a
\* string that names its input and is never empty.
create_canonical_body(body) == "sha256(" \o body \o ")"

\* The signed headers among headers.keys(), sorted, as "key:value" lines.
create_canonical_headers(headers) ==
    LET names == sorted({key \in keys(headers) : key \in Range(signed_headers)})
    IN join([i \in DOMAIN names |->
                names[i] \o ":" \o split_join(item(headers, names[i]))], "\n")

\* The params in the order they were inserted.
create_canonical_params_Unsorted(params) ==
    IF params = <<>> THEN ""
    ELSE join([i \in DOMAIN params |->
                  quote(params[i][1]) \o "=" \o quote(params[i][2])], "&")

\* '' without params, else "key=value" for the sorted keys, joined by "&".
create_canonical_params(params) ==
    IF params = <<>> THEN ""
    ELSE LET names == sorted(keys(params))
         IN join([i \in DOMAIN names |->
                     quote(names[i]) \o "=" \o quote(item(params, names[i]))], "&")

\* The six fields with the body always digested.
canonical_fields_AlwaysDigest(method, path, params, headers, body) ==
    <<upper(method), path, create_canonical_params(params),
      create_canonical_headers(headers), join(signed_headers, ";"),
      create_canonical_body(body)>>

\* The list create_canonical_request joins.
canonical_fields(method, path, params, headers, body) ==
    <<upper(method), path, create_canonical_params(params),
      create_canonical_headers(headers), join(signed_headers, ";"),
      IF Len(body) # 0 THEN create_canonical_body(body) ELSE body>>

create_canonical_request(method, path, params, headers, body) ==
    join(canonical_fields(method, path, params, headers, body), "\n")

\* HMAC(key, msg, sha256).hexdigest(), kept symbolic: a string that names the
\* key and the message.
sign(client_secret, canonical_request) ==
    "hmac-sha256(" \o client_secret \o "," \o canonical_request \o ")"

\* What is kept of one request: the arguments and the results.
Signed(method, path, params, headers, body, client_secret) ==
    [method |-> method, path |-> path, params |-> params, headers |-> headers,
     body |-> body, client_secret |-> client_secret,
     fields |-> canonical_fields(method, path, params, headers, body),
     canonical_request |-> create_canonical_request(method, path, params, headers, body),
     signature |-> sign(client_secret,
                        create_canonical_request(method, path, params, headers, body))]

\* Requests kept side by side.
MaxSigned == 2
\* Items of a headers dict handed to the signer directly.
MaxHeaders == 2

\* A caller canonicalises and signs a request of its own making, as the
\* test of the signer does.
SignRequest ==
    /\ Cardinality(signed) < MaxSigned
    /\ \E method \in {"get", "POST"},
          params \in Dicts({<<"a", "1">>, <<"a", "x&y">>, <<"b c", "1">>}, 2),
          headers \in Dicts({<<"content-type", "application/json; charset=UTF-8">>,
                             <<"x-annalise-ai-client-id", "TESTID">>,
                             <<"x-annalise-ai-client-id", " TEST  ID ">>,
                             <<"x-annalise-ai-timestamp", "1596689207731">>,
                             <<"x-annalise-ai-app-version", "0.0.0.not-specified">>,
                             <<"x-annalise-ai-app-version", "1.2.3">>}, MaxHeaders),
          body \in {"", "null"} :
        signed' = signed \cup
            {Signed(method, "/v1/images/upload", params, headers, body, "TESTSECRET")}
    /\ UNCHANGED <<retryVars, callerVars, getVars, poolVars, uploadVars, traceVars>>

\* WebTransport._get_headers as get() and send() call it: the five headers in
\* the order the dict literal lists them, the canonical request, the signature.
GetHeaders ==
    /\ Cardinality(signed) < MaxSigned
    /\ \E client_id \in {"TESTID", " TEST  ID "}, app_version \in {"0.0.0.not-specified", "1.2.3"},
          call \in {<<"GET", "">>, <<"POST", "null">>},
          params \in Dicts({<<"a", "1">>, <<"a", "x&y">>, <<"b c", "1">>}, 1) :
        LET headers ==
                <<<<"content-type", "application/json; charset=UTF-8">>,
                  <<"x-annalise-ai-client-id", client_id>>,
                  <<"x-annalise-ai-timestamp", "1596689207731">>,
                  <<"x-annalise-ai-signed-headers", join(signed_headers, ";")>>,
                  <<"x-annalise-ai-app-version", app_version>>>>
        IN signed' = signed \cup
               {Signed(call[1], "/v1/images/upload",
                       IF call[1] = "GET" THEN params ELSE <<>>, headers, call[2], "TESTSECRET")}
    /\ UNCHANGED <<retryVars, callerVars, getVars, poolVars, uploadVars, traceVars>>

InitSigner ==
    /\ InitThreads
    /\ NoUpload
    /\ hfn = "upload_image_helper"
    /\ hcalls = 0
    /\ pc = [t \in Threads |-> "idle"]
    /\ stage = [t \in Threads |-> "none"]
    /\ max_workers = 1
    /\ accessions = <<>>
    /\ queue = <<>>
    /\ futures = <<>>

NextSigner ==
    \/ SignRequest
    \/ GetHeaders

SpecSigner == InitSigner /\ [][NextSigner]_vars

\* C32: two requests with the same method, path and body whose params dicts
\* hold the same items and whose headers dicts hold the same items, in
\* whatever order they were inserted, have the same canonical request.
C32_OrderInsensitive ==
    \A r1, r2 \in signed :
        (/\ r1.method = r2.method
         /\ r1.path = r2.path
         /\ r1.body = r2.body
         /\ Range(r1.params) = Range(r2.params)
         /\ Range(r1.headers) = Range(r2.headers))
        => r1.canonical_request = r2.canonical_request

\* Two requests differ in the order of their two params and in the order of
\* their two signed headers only.
C32_Witness ==
    \E r1, r2 \in signed :
        /\ r1.method = r2.method
        /\ r1.body = r2.body
        /\ Len(r1.params) = 2
        /\ r1.params # r2.params
        /\ Range(r1.params) = Range(r2.params)
        /\ keys(r1.headers) = {"x-annalise-ai-timestamp", "x-annalise-ai-client-id"}
        /\ r1.headers # r2.headers
        /\ Range(r1.headers) = Range(r2.headers)

\* C33: two requests with the same method, path, params, body and secret
\* that agree on the client-id header and on the timestamp header (present in
\* both with one value, or absent from both) have the same canonical request
\* and the same signature, whatever other headers they carry.
C33_OnlySignedHeadersCount ==
    \A r1, r2 \in signed :
        (/\ r1.method = r2.method
         /\ r1.path = r2.path
         /\ r1.params = r2.params
         /\ r1.body = r2.body
         /\ r1.client_secret = r2.client_secret
         /\ \A name \in {"x-annalise-ai-client-id", "x-annalise-ai-timestamp"} :
               {h \in Range(r1.headers) : h[1] = name} = {h \in Range(r2.headers) : h[1] = name})
        => /\ r1.canonical_request = r2.canonical_request
           /\ r1.signature = r2.signature

\* Two requests of the transport differ in the application version only.
C33_Witness ==
    /\ \E r1, r2 \in signed :
        /\ r1.method = r2.method
        /\ r1.params = r2.params
        /\ r1.body = r2.body
        /\ Len(r1.headers) = 5
        /\ Len(r2.headers) = 5
        /\ item(r1.headers, "x-annalise-ai-client-id") = item(r2.headers, "x-annalise-ai-client-id")
        /\ item(r1.headers, "x-annalise-ai-app-version") # item(r2.headers, "x-annalise-ai-app-version")
        /\ r1.canonical_request = r2.canonical_request

\* C34: the sixth and last field of the canonical request is the empty
\* string for an empty body, which the digest of the empty input is not, and
\* the SHA-256 hex digest of the body for every other body.
C34_EmptyBodyNotDigested ==
    \A r \in signed :
        /\ Len(r.fields) = 6
        /\ r.canonical_request = join(r.fields, "\n")
        /\ r.body = "" => (r.fields[6] = "" /\ r.fields[6] # create_canonical_body(""))
        /\ r.body # "" => r.fields[6] = create_canonical_body(r.body)

\* A request with an empty body and a request with a body were canonicalised.
C34_Witness ==
    \E r1, r2 \in signed :
        /\ r1.body = ""
        /\ r1.fields[6] = ""
        /\ r2.body # ""
        /\ r2.fields[6] # ""

====
